---- MODULE Spec2Model ----
(***************************************************************************)
(* psachecker: the command of cmd/main.go (Complete, Validate, Run, print) *)
(* and PSACheckerOptions of pkg/checker/options.go.                        *)
(*                                                                         *)
(* pkg/checker's ParallelAdmission (NewParallelAdmission, Validate) and    *)
(* KnowAllNamespaceGetter are called by options.go but their source is not *)
(* part of the tree; they are modelled from the design document (sections  *)
(* 4.1 - 4.3 and 5).  Run assigns adm.Validate's single return value to a  *)
(* map entry, so whatever Validate has to report (verdicts, exemption,     *)
(* lookup error, cancellation) is carried by that one value.               *)
(***************************************************************************)
EXTENDS Naturals, Sequences, FiniteSets, TLC

\* Largest number of objects Infos() yields in the model.
MaxObjs == 2

\* The same, for the behaviours checked under fairness.
MaxFairObjs == 1

VARIABLES
    pc,                 \* position of the command's RunE
    files,              \* len(opts.filenameOptions.Filenames) > 0
    nsFlag,             \* *opts.clientConfigOptions.Namespace
    defaultNamespaces,  \* opts.defaultNamespaces
    kubeClient,         \* opts.kubeClient: "nil", "typedNil" or "client"
    nsGetter,           \* opts.nsGetter: "nil", "KnowAll" or "FromClient"
    builder,            \* opts.builder # nil
    isLocal,            \* opts.isLocal
    completeErr,        \* Complete returned an error (main drops it)
    validateErrs,       \* the error list Validate returned
    ctxCancelled,       \* the context handed to Run is cancelled
    infos,              \* res.Infos()
    idx,                \* position of the range loop over infos
    results,            \* Run's local map, key -> value returned by Validate
    runRet,             \* what Run returned: "unset", "nil" (with an error) or "map"
    runErr,             \* the kind of error Run returned, "" if none
    printed,            \* the keys main printed a line for
    attrs,              \* the AttributesRecord of the Validate call in progress
    vpc,                \* position of the Validate call: "idle", "lookup", "tasks"
    task,               \* level -> "idle", "running", "done" or "aborted"
    verdicts,           \* level -> verdict the level's task produced
    completion,         \* levels in the order the tasks of the latest call finished
    dispatched,         \* the call in progress dispatched its level tasks
    cache,              \* namespace -> resolution kept by the evaluator for the run
    reads,              \* namespace -> cluster reads issued in this run
    calls               \* history: one entry per finished Validate call

vars == <<pc, files, nsFlag, defaultNamespaces, kubeClient, nsGetter, builder,
          isLocal, completeErr, validateErrs, ctxCancelled, infos, idx, results,
          runRet, runErr, printed, attrs, vpc, task, verdicts, completion,
          dispatched, cache, reads, calls>>

optsVars == <<files, nsFlag, defaultNamespaces, kubeClient, nsGetter, builder,
              isLocal, completeErr, validateErrs>>

callVars == <<attrs, vpc, task, verdicts, completion, dispatched>>

----------------------------------------------------------------------------
(* Data *)

\* The policy ladder, least to most restrictive.
PolicyLevels == <<"privileged", "baseline", "restricted">>

Levels == {PolicyLevels[i] : i \in 1..Len(PolicyLevels)}

\* Namespaces an object can carry; "" is an object without a namespace.
Namespaces == {"", "ns1", "ns2"}

\* Values of the --namespace flag.
NamespaceFlags == {"", "ns1"}

\* Pod specs of the input objects: what the level rules look at, and the levels
\* whose evaluator cannot handle the object at all.
Payloads ==
    { [hostNetwork |-> FALSE, privEsc |-> FALSE, malformed |-> {}],
      [hostNetwork |-> TRUE,  privEsc |-> TRUE,  malformed |-> {"restricted"}],
      [hostNetwork |-> TRUE,  privEsc |-> TRUE,  malformed |-> Levels] }

Objects == [kind : {"Pod"}, ns : Namespaces, name : {"a"}, payload : Payloads]

RECURSIVE SeqsUpTo(_, _)
SeqsUpTo(S, n) ==
    IF n = 0 THEN {<<>>}
    ELSE LET shorter == SeqsUpTo(S, n - 1)
         IN  shorter \cup {Append(s, x) : s \in {t \in shorter : Len(t) = n - 1}, x \in S}

Batches == SeqsUpTo(Objects, MaxObjs)

NoVerdict == [present |-> FALSE, pass |-> FALSE, reasons |-> <<>>]

NoVerdicts == [l \in Levels |-> NoVerdict]

NoAttrs == [Namespace |-> "", Name |-> "", Resource |-> "", Operation |-> "",
            Object |-> [hostNetwork |-> FALSE, privEsc |-> FALSE, malformed |-> {}]]

Unresolved == [state |-> "unresolved", exempt |-> FALSE]

EmptyMap == [k \in {} |-> NoVerdict]

----------------------------------------------------------------------------
(* pkg/checker/options.go *)

\* Complete, lines 91-103: files select the local builder and the
\* know-all namespace getter, otherwise the getter reads from the cluster.
CompleteGetterLive(hasFiles) == "FromClient"

CompleteGetter(hasFiles) == IF hasFiles THEN "KnowAll" ELSE "FromClient"

ValidateErrsNoGetter(client, getter, defaulting, ns) ==
    (IF client = "nil" THEN {"missing kube client"} ELSE {})
    \cup (IF defaulting /\ ns = ""
          THEN {"cannot specify --default-namespaces without --namespace"} ELSE {})

ValidateErrsNoFlags(client, getter, defaulting, ns) ==
    (IF client = "nil" THEN {"missing kube client"} ELSE {})
    \cup (IF getter = "nil" THEN {"missing nsGetter"} ELSE {})

\* Validate, lines 114-129.  A typed nil *Clientset stored in the interface
\* field by a failed NewForConfig does not compare equal to nil.
ValidateErrs(client, getter, defaulting, ns) ==
    (IF client = "nil" THEN {"missing kube client"} ELSE {})
    \cup (IF getter = "nil" THEN {"missing nsGetter"} ELSE {})
    \cup (IF defaulting /\ ns = ""
          THEN {"cannot specify --default-namespaces without --namespace"} ELSE {})

MissingNamespaceSkipped(local, defaulting, objNs) == FALSE

\* Run, lines 156-159: a local object without a namespace is an error unless
\* namespaces are defaulted.
MissingNamespace(local, defaulting, objNs) ==
    local /\ objNs = "" /\ ~defaulting

\* Run, lines 156-167: the namespace the object is evaluated under.
ObjNamespace(local, objNs, flag) ==
    IF local /\ objNs = "" THEN flag ELSE objNs

\* Run, line 169: the key of the result map.
Key(kind, ns, name) == <<kind, ns, name>>

\* Run, lines 171-178: the record handed to the evaluator.
Attributes(obj, ns) ==
    [Namespace |-> ns, Name |-> obj.name, Resource |-> obj.kind,
     Operation |-> "CREATE", Object |-> obj.payload]

ValidateCtxBackground(cancelled) == FALSE

\* Run, line 171: Validate gets the context Run was given.
ValidateCtx(cancelled) == cancelled

StoreResultOnlyPassing(map, key, val) ==
    IF \E l \in Levels : val.verdicts[l].present /\ ~val.verdicts[l].pass
    THEN map
    ELSE [k \in DOMAIN map \cup {key} |-> IF k = key THEN val ELSE map[k]]

StoreResultNoErrors(map, key, val) ==
    IF val.kind = "lookupError" THEN map
    ELSE [k \in DOMAIN map \cup {key} |-> IF k = key THEN val ELSE map[k]]

\* Run, line 171: results[key] = adm.Validate(...), whatever Validate returned.
StoreResult(map, key, val) ==
    [k \in DOMAIN map \cup {key} |-> IF k = key THEN val ELSE map[k]]

----------------------------------------------------------------------------
(* The evaluator, modelled from the design document *)

\* 4.2: the rule set of a level.
Violations(level, p) ==
    (IF level \in {"baseline", "restricted"} /\ p.hostNetwork
     THEN <<"hostNetwork not allowed">> ELSE <<>>)
    \o (IF level = "restricted" /\ p.privEsc
        THEN <<"allowPrivilegeEscalation != false">> ELSE <<>>)

\* 4.2: evaluate(level, attributes); "error" is an evaluator failure.
Evaluate(level, p) ==
    IF level \in p.malformed
    THEN [status |-> "error", reasons |-> <<"cannot evaluate object">>]
    ELSE LET v == Violations(level, p)
         IN  [status |-> IF v = <<>> THEN "pass" ELSE "fail", reasons |-> v]

\* 4.3 step 3: an evaluator failure becomes a failing verdict with its reason.
Capture(e) == [present |-> TRUE, pass |-> e.status = "pass", reasons |-> e.reasons]

ScanOrderCompletion(done) == done

ScanOrderDescending(done) == <<"restricted", "baseline", "privileged">>

\* 4.3 step 4 and 5: the reduction scans the fixed ladder, not the order in
\* which the tasks finished.
ScanOrder(done) == PolicyLevels

RECURSIVE FirstPassing(_, _)
FirstPassing(order, vs) ==
    IF order = <<>> THEN "none"
    ELSE IF vs[Head(order)].present /\ vs[Head(order)].pass THEN Head(order)
    ELSE FirstPassing(Tail(order), vs)

\* 4.3 step 4: the minimal level.
Reduce(vs, done) == FirstPassing(ScanOrder(done), vs)

LevelsResult(vs, done) ==
    [kind |-> "levels", minimal |-> Reduce(vs, done), verdicts |-> vs]

ExemptResult == [kind |-> "exempt", minimal |-> "none", verdicts |-> NoVerdicts]

LookupErrorResult == [kind |-> "lookupError", minimal |-> "none", verdicts |-> NoVerdicts]

CancelledResult == [kind |-> "cancelled", minimal |-> "none", verdicts |-> NoVerdicts]

CachedIgnored(c, ns) == Unresolved

\* 4.1, 4.3 step 1: what the run already knows about a namespace.
Cached(c, ns) == c[ns]

\* 4.1: what a resolution can yield.  The know-all getter knows every namespace,
\* exempts none and reads nothing; the live getter reads the cluster and can fail.
Resolutions(getter) ==
    IF getter = "KnowAll"
    THEN {[state |-> "resolved", exempt |-> FALSE]}
    ELSE {[state |-> "resolved", exempt |-> FALSE],
          [state |-> "resolved", exempt |-> TRUE],
          [state |-> "failed", exempt |-> FALSE]}

ReadsOf(getter) == IF getter = "FromClient" THEN 1 ELSE 0


JoinValue(cancelled, vs, done) ==
    IF cancelled THEN CancelledResult ELSE LevelsResult(vs, done)

----------------------------------------------------------------------------
(* The command *)

Init ==
    /\ pc = "start"
    /\ files \in BOOLEAN
    /\ nsFlag \in NamespaceFlags
    /\ defaultNamespaces \in BOOLEAN
    /\ kubeClient = "nil"
    /\ nsGetter = "nil"
    /\ builder = FALSE
    /\ isLocal = FALSE
    /\ completeErr = FALSE
    /\ validateErrs = {}
    /\ ctxCancelled = FALSE
    /\ infos = <<>>
    /\ idx = 1
    /\ results = EmptyMap
    /\ runRet = "unset"
    /\ runErr = ""
    /\ printed = {}
    /\ attrs = NoAttrs
    /\ vpc = "idle"
    /\ task = [l \in Levels |-> "idle"]
    /\ verdicts = NoVerdicts
    /\ completion = <<>>
    /\ dispatched = FALSE
    /\ cache = [n \in Namespaces |-> Unresolved]
    /\ reads = [n \in Namespaces |-> 0]
    /\ calls = <<>>

\* options.go, Complete.  main.go line 34 drops the error it returns.
Complete ==
    /\ pc = "start"
    /\ \E outcome \in {"configError", "clientError", "ok"} :
          /\ completeErr' = (outcome # "ok")
          /\ kubeClient' = CASE outcome = "configError" -> "nil"
                             [] outcome = "clientError" -> "typedNil"
                             [] OTHER -> "client"
          /\ builder' = (outcome = "ok")
          /\ nsGetter' = IF outcome = "ok" THEN CompleteGetter(files) ELSE "nil"
          /\ isLocal' = (outcome = "ok" /\ files)
    /\ pc' = "completed"
    /\ UNCHANGED <<files, nsFlag, defaultNamespaces, validateErrs, ctxCancelled,
                   infos, idx, results, runRet, runErr, printed, cache, reads, calls>>
    /\ UNCHANGED callVars

\* main.go lines 35-38: Validate, and the return on a non-empty error list.
Validate ==
    /\ pc = "completed"
    /\ validateErrs' = ValidateErrs(kubeClient, nsGetter, defaultNamespaces, nsFlag)
    /\ pc' = IF validateErrs' # {} THEN "setupError" ELSE "validated"
    /\ UNCHANGED <<files, nsFlag, defaultNamespaces, kubeClient, nsGetter, builder,
                   isLocal, completeErr, ctxCancelled, infos, idx, results, runRet,
                   runErr, printed, cache, reads, calls>>
    /\ UNCHANGED callVars

\* options.go lines 132-144: Infos and NewParallelAdmission can each fail.
RunStartFrom(batches) ==
    /\ pc = "validated"
    /\ builder
    /\ \/ /\ \E kind \in {"infos", "admission"} : runErr' = kind
          /\ runRet' = "nil"
          /\ pc' = "runError"
          /\ UNCHANGED infos
       \/ /\ infos' \in batches
          /\ pc' = "loop"
          /\ UNCHANGED <<runRet, runErr>>
    /\ UNCHANGED optsVars
    /\ UNCHANGED <<ctxCancelled, idx, results, printed, cache, reads, calls>>
    /\ UNCHANGED callVars

RunStart == RunStartFrom(Batches)

RunStartFair == RunStartFrom(SeqsUpTo(Objects, MaxFairObjs))

\* options.go lines 145-171, up to the call of adm.Validate.
RunNext ==
    /\ pc = "loop"
    /\ idx <= Len(infos)
    /\ LET obj == infos[idx]
       IN  IF MissingNamespace(isLocal, defaultNamespaces, obj.ns)
           THEN /\ runErr' = "missingNamespace"
                /\ runRet' = "nil"
                /\ pc' = "runError"
                /\ UNCHANGED <<attrs, vpc>>
           ELSE /\ attrs' = Attributes(obj, ObjNamespace(isLocal, obj.ns, nsFlag))
                /\ vpc' = "lookup"
                /\ pc' = "validating"
                /\ UNCHANGED <<runRet, runErr>>
    /\ completion' = <<>>
    /\ UNCHANGED optsVars
    /\ UNCHANGED <<ctxCancelled, infos, idx, results, printed, cache, reads, calls,
                   task, verdicts, dispatched>>

\* options.go line 181.
RunReturn ==
    /\ pc = "loop"
    /\ idx > Len(infos)
    /\ runRet' = "map"
    /\ pc' = "runDone"
    /\ UNCHANGED optsVars
    /\ UNCHANGED <<ctxCancelled, infos, idx, results, runErr, printed, cache, reads, calls>>
    /\ UNCHANGED callVars

\* main.go lines 45-48.
PrintResults ==
    /\ pc = "runDone"
    /\ printed' = DOMAIN results
    /\ pc' = "exit"
    /\ UNCHANGED optsVars
    /\ UNCHANGED <<ctxCancelled, infos, idx, results, runRet, runErr, cache, reads, calls>>
    /\ UNCHANGED callVars

\* The caller of Run cancels the context.
Cancel ==
    /\ pc \in {"validated", "loop", "validating"}
    /\ ~ctxCancelled
    /\ ctxCancelled' = TRUE
    /\ UNCHANGED optsVars
    /\ UNCHANGED <<pc, infos, idx, results, runRet, runErr, printed, cache, reads, calls>>
    /\ UNCHANGED callVars

----------------------------------------------------------------------------
(* One Validate call, and options.go line 171 storing what it returns *)

Returns(val, view) ==
    /\ results' = StoreResult(results, Key(attrs.Resource, attrs.Namespace, attrs.Name), val)
    /\ calls' = Append(calls, [attrs |-> attrs, val |-> val,
                               cancelled |-> ctxCancelled,
                               dispatched |-> dispatched, view |-> view])
    /\ idx' = idx + 1
    /\ pc' = "loop"
    /\ attrs' = NoAttrs
    /\ vpc' = "idle"
    /\ task' = [l \in Levels |-> "idle"]
    /\ verdicts' = NoVerdicts
    /\ dispatched' = FALSE
    /\ UNCHANGED completion

\* 4.3 step 1: resolve the namespace, once per namespace and run.
VLookup ==
    /\ pc = "validating"
    /\ vpc = "lookup"
    /\ IF ValidateCtx(ctxCancelled)
       THEN /\ Returns(CancelledResult, Unresolved)
            /\ UNCHANGED <<cache, reads>>
       ELSE LET ns == attrs.Namespace
                known == Cached(cache, ns)
            IN  \E r \in (IF known.state = "unresolved" THEN Resolutions(nsGetter) ELSE {known}) :
                   /\ cache' = [cache EXCEPT ![ns] = r]
                   /\ reads' = IF known.state = "unresolved"
                               THEN [reads EXCEPT ![ns] = @ + ReadsOf(nsGetter)]
                               ELSE reads
                   /\ IF r.state = "failed" THEN Returns(LookupErrorResult, r)
                      ELSE IF r.exempt THEN Returns(ExemptResult, r)
                      ELSE /\ task' = [l \in Levels |-> "running"]
                           /\ dispatched' = TRUE
                           /\ vpc' = "tasks"
                           /\ UNCHANGED <<pc, idx, results, calls, attrs, verdicts, completion>>
    /\ UNCHANGED optsVars
    /\ UNCHANGED <<ctxCancelled, infos, runRet, runErr, printed>>

\* 4.3 steps 2 and 3: the task of one level.
VTask(l) ==
    /\ pc = "validating"
    /\ vpc = "tasks"
    /\ task[l] = "running"
    /\ IF ValidateCtx(ctxCancelled)
       THEN /\ task' = [task EXCEPT ![l] = "aborted"]
            /\ UNCHANGED verdicts
       ELSE /\ task' = [task EXCEPT ![l] = "done"]
            /\ verdicts' = [verdicts EXCEPT ![l] = Capture(Evaluate(l, attrs.Object))]
    /\ completion' = Append(completion, l)
    /\ UNCHANGED optsVars
    /\ UNCHANGED <<pc, ctxCancelled, infos, idx, results, runRet, runErr, printed,
                   attrs, vpc, dispatched, cache, reads, calls>>

\* 4.3 steps 3 to 5: join the tasks, reduce, return.
VJoin ==
    /\ pc = "validating"
    /\ vpc = "tasks"
    /\ \A l \in Levels : task[l] \in {"done", "aborted"}
    /\ Returns(JoinValue(ValidateCtx(ctxCancelled), verdicts, completion),
               cache[attrs.Namespace])
    /\ UNCHANGED optsVars
    /\ UNCHANGED <<ctxCancelled, infos, runRet, runErr, printed, cache, reads>>

Rest ==
    \/ Complete
    \/ Validate
    \/ RunNext
    \/ RunReturn
    \/ PrintResults
    \/ Cancel
    \/ VLookup
    \/ \E l \in Levels : VTask(l)
    \/ VJoin

Next == RunStart \/ Rest

Spec == Init /\ [][Next]_vars

NextFair == RunStartFair \/ Rest

\* The Go scheduler runs every goroutine that can run, and Validate is called
\* synchronously by Run.
FairSpec ==
    /\ Init
    /\ [][NextFair]_vars
    /\ WF_vars(VLookup)
    /\ WF_vars(\E l \in Levels : VTask(l))
    /\ WF_vars(VJoin)

----------------------------------------------------------------------------
(* Properties *)

Last(s) == s[Len(s)]

CallIdx == 1..Len(calls)

KeyOf(a) == Key(a.Resource, a.Namespace, a.Name)

\* Positions in the ladder of the levels whose evaluator passes the object.
PassingIdx(p) == {i \in 1..Len(PolicyLevels) : Evaluate(PolicyLevels[i], p).status = "pass"}

MinOf(S) == CHOOSE i \in S : \A j \in S : i <= j

AllPresent(val) == \A l \in Levels : val.verdicts[l].present

NonePresent(val) == \A l \in Levels : ~val.verdicts[l].present

C2_CancelledCallReturnsCancellation ==
    /\ [](\A i \in CallIdx :
             /\ calls[i].cancelled => calls[i].val.kind = "cancelled"
             /\ calls[i].val.kind = "levels" => AllPresent(calls[i].val)
             /\ calls[i].val.kind = "cancelled" => NonePresent(calls[i].val))
    /\ ((pc = "validating" /\ ctxCancelled)
          ~> (pc # "validating" /\ Len(calls) > 0 /\ Last(calls).val.kind = "cancelled"))

\* A call cancelled after it had dispatched its level tasks.
C2_Witness ==
    \E i \in CallIdx :
        calls[i].cancelled /\ calls[i].dispatched /\ calls[i].val.kind = "cancelled"

\* C3 as stated: after a failed namespace lookup nothing was dispatched, nothing
\* is stored for the object and Run has returned an error and no map.
C3_LookupErrorAbortsRun ==
    \A i \in CallIdx :
        calls[i].val.kind = "lookupError" =>
           /\ ~calls[i].dispatched
           /\ KeyOf(calls[i].attrs) \notin DOMAIN results
           /\ pc = "runError" /\ runRet = "nil"

\* C3, amended: after a failed namespace lookup the value returned carries the
\* lookup error and no verdict, nothing was dispatched, the namespace was read
\* once, and Run stored the value under the object's key and went on: it returns
\* no error, and at its end the key is in the map it returns.
C3_LookupErrorIsStored ==
    \A i \in CallIdx :
        LET c == calls[i]
        IN  c.val.kind = "lookupError" =>
               /\ ~c.dispatched
               /\ NonePresent(c.val)
               /\ c.view.state = "failed"
               /\ reads[c.attrs.Namespace] = 1
               /\ KeyOf(c.attrs) \in DOMAIN results
               /\ (\A j \in CallIdx : j > i => KeyOf(calls[j].attrs) # KeyOf(c.attrs))
                     => results[KeyOf(c.attrs)] = c.val
               /\ runErr = ""
               /\ pc \in {"loop", "validating", "runDone", "exit"}
               /\ pc \in {"runDone", "exit"} => runRet = "map" /\ Len(calls) = Len(infos)

\* The lookup of the first object failed and the second object was evaluated.
C3_Witness ==
    /\ pc = "exit"
    /\ Len(calls) = 2
    /\ calls[1].val.kind = "lookupError"
    /\ calls[2].val.kind = "levels"
    /\ KeyOf(calls[1].attrs) \in printed

\* C4: a call that resolved its namespace as exempt returns the exempt value
\* without having dispatched a level task, whatever the object is; with files
\* given (the know-all getter) no namespace is resolved as exempt.
C4_ExemptShortCircuits ==
    /\ \A i \in CallIdx :
          LET c == calls[i]
          IN  /\ (c.view.state = "resolved" /\ c.view.exempt) =>
                    (c.val.kind = "exempt" /\ ~c.dispatched /\ NonePresent(c.val))
              /\ c.val.kind = "exempt" => c.view.exempt
    /\ files =>
          /\ \A n \in Namespaces : ~cache[n].exempt
          /\ \A i \in CallIdx : calls[i].val.kind # "exempt"

\* An exempt namespace holding an object that fails baseline and one that
\* passes every level.
C4_Witness ==
    /\ Len(calls) = 2
    /\ calls[1].val.kind = "exempt" /\ calls[1].attrs.Object.hostNetwork
    /\ calls[2].val.kind = "exempt" /\ ~calls[2].attrs.Object.hostNetwork
    /\ calls[1].attrs.Namespace = calls[2].attrs.Namespace

\* C5: an evaluator failure at a level is a failing verdict with a reason at
\* that level, the verdicts of the other levels are what their evaluators say,
\* every level has a verdict; Run never stops because of it: it evaluates the
\* objects in order, stops only at an object without namespace, and when it
\* returns the map every object's key is in it.
C5_EvaluatorFailureStaysLocal ==
    /\ \A i \in CallIdx :
          LET c == calls[i]
          IN  /\ c.attrs.Object = infos[i].payload
              /\ c.val.kind = "levels" =>
                    /\ AllPresent(c.val)
                    /\ \A l \in Levels :
                          LET e == Evaluate(l, c.attrs.Object)
                          IN  /\ e.status = "error" =>
                                    (~c.val.verdicts[l].pass /\ c.val.verdicts[l].reasons # <<>>)
                              /\ e.status # "error" =>
                                    /\ c.val.verdicts[l].pass = (e.status = "pass")
                                    /\ c.val.verdicts[l].reasons = Violations(l, c.attrs.Object)
              /\ KeyOf(c.attrs) \in DOMAIN results
    /\ pc = "runError" /\ runErr = "missingNamespace" =>
          (isLocal /\ ~defaultNamespaces /\ infos[idx].ns = "")
    /\ pc \in {"loop", "validating"} => Len(calls) = idx - 1
    /\ pc \in {"runDone", "exit"} =>
          /\ runErr = "" /\ runRet = "map"
          /\ Len(calls) = Len(infos)

\* Run returned the map of two objects, the first of which the restricted
\* evaluator could not handle.
C5_Witness ==
    /\ pc = "exit"
    /\ Len(calls) = 2
    /\ calls[1].val.kind = "levels"
    /\ Evaluate("restricted", calls[1].attrs.Object).status = "error"
    /\ Evaluate("baseline", calls[1].attrs.Object).status = "fail"
    /\ calls[1].val.minimal = "privileged"
    /\ calls[2].val.kind = "levels"
    /\ Cardinality(printed) = 2

FirstUnscoped == MinOf({i \in 1..Len(infos) : infos[i].ns = ""})

\* C6: with files given and namespace defaulting off, a batch that holds an
\* object without namespace never makes Run return a map: no object at or after
\* the first such object is evaluated, nothing is printed, and Run's return is
\* an error and a nil map, whatever was stored before.
C6_MissingNamespaceFailsRun ==
    (isLocal /\ ~defaultNamespaces /\ \E i \in 1..Len(infos) : infos[i].ns = "") =>
        /\ pc \notin {"runDone", "exit"}
        /\ runRet # "map"
        /\ printed = {}
        /\ Len(calls) < FirstUnscoped
        /\ idx <= FirstUnscoped
        /\ pc = "runError" =>
              (runErr = "missingNamespace" /\ runRet = "nil" /\ idx = FirstUnscoped)

\* Run failed at the second object after it had stored a result for the first.
C6_Witness ==
    /\ pc = "runError"
    /\ runErr = "missingNamespace"
    /\ idx = 2
    /\ Len(calls) = 1
    /\ DOMAIN results # {}
    /\ runRet = "nil"

\* C7: once Validate has run, its error list is not empty if the kube client
\* or the namespace getter is nil, if --default-namespaces comes without
\* --namespace, or if Complete failed; and after a non-empty list the command
\* has ended without Run: no object evaluated, no line printed.
C7_SetupErrorsStopTheCommand ==
    pc \notin {"start", "completed"} =>
        /\ (\/ kubeClient = "nil"
            \/ nsGetter = "nil"
            \/ (defaultNamespaces /\ nsFlag = "")
            \/ completeErr) => validateErrs # {}
        /\ validateErrs # {} =>
              /\ pc = "setupError"
              /\ infos = <<>> /\ calls = <<>> /\ attrs = NoAttrs
              /\ runRet = "unset"
              /\ printed = {}

\* Complete failed building the client, which leaves a typed nil client that
\* Validate does not see as nil.
C7_Witness ==
    /\ pc = "setupError"
    /\ completeErr
    /\ kubeClient = "typedNil"
    /\ validateErrs = {"missing nsGetter"}

Handed ==
    {<<calls[i].attrs, infos[i]>> : i \in CallIdx}
    \cup (IF pc = "validating" THEN {<<attrs, infos[idx]>>} ELSE {})

\* C9: every record handed to the evaluator has operation create; with files
\* given its namespace is not empty: the object's own when it declares one, the
\* --namespace value (under --default-namespaces) when it declares none.
C9_RecordsAreScoped ==
    \A h \in Handed :
        /\ h[1].Operation = "CREATE"
        /\ h[1].Name = h[2].name
        /\ isLocal =>
              /\ h[1].Namespace # ""
              /\ h[2].ns # "" => h[1].Namespace = h[2].ns
              /\ h[2].ns = "" => (defaultNamespaces /\ h[1].Namespace = nsFlag)

\* A file run that defaulted the first object's namespace and kept the second's.
C9_Witness ==
    /\ isLocal /\ defaultNamespaces
    /\ Len(calls) = 2
    /\ infos[1].ns = "" /\ calls[1].attrs.Namespace = "ns1"
    /\ infos[2].ns = "ns2" /\ calls[2].attrs.Namespace = "ns2"

====
